---------------------------- MODULE Spec2Model ----------------------------
(***************************************************************************)
(* A model of conduit's global coordination layer                         *)
(* (src/src/database/globals.rs): the server keypair bootstrap, the       *)
(* remote signing-key trust store, the rotation broadcast, the per-room   *)
(* lock registries, the rate-limiter maps, the per-server concurrency     *)
(* gate, the global counter and the TLS name override map.                *)
(*                                                                         *)
(* Each component has its own specification (SpecTrust, SpecTrustSeq,     *)
(* SpecKeypair, ...) over the shared variables; a component's actions     *)
(* leave the other components' variables unchanged.                        *)
(***************************************************************************)
EXTENDS Integers, Sequences, FiniteSets, TLC

VARIABLES
    server_signingkeys, \* the server_signingkeys tree: origin -> stored bytes
    call,               \* per caller: the add_signing_key call in flight
    ret,                \* what the last completed trust-store call returned
    supplied,           \* history: key ids supplied by the completed add_signing_key calls
    calls,              \* history: number of add_signing_key calls begun
    kp_store,           \* the globals tree's "keypair" record: <<>> or <<bytes>>
    load_ret,           \* what the last Globals::load returned (its keypair part)
    loads,              \* history: number of load calls
    kp_writes,          \* history: number of inserts of the "keypair" record
    corruptions,        \* history: number of external corruptions of the record
    issued,             \* history: the keypairs successful loads returned
    tail_pos,           \* broadcast channel: position of the next value sent
    rx_cnt,             \* broadcast channel: number of live receivers
    buffer,             \* broadcast channel: slot index -> position of the value held
    rx,                 \* per watcher: its watch() future and that future's receiver
    fires_since,        \* history: per watcher, fire() calls since its watch()
    wakes,              \* history: per watcher, times its current future resolved
    lost,               \* history: fire() calls made while nobody was watching
    registry,           \* roomid_mutex_<domain>: domain -> room -> lock object or none
    reg_guard,          \* per domain: the task holding the registry's write guard
    mutex,              \* per lock object created: its owner and its wait queue
    task,               \* per task: where it is in lookup, lock, unlock
    created,            \* history: domain -> room -> lock objects ever created
    ratelimiter,        \* bad_event / bad_signature ratelimiter: key -> RateLimitState
    now,                \* the monotonic clock Instant::now() reads
    failures,           \* history: per key, record_failure calls since its last clear
    last_call,          \* history: per key, the time of its last record_failure call
    rl_target,          \* history: the map and key of the last rate-limiter operation
    servername_ratelimiter, \* server name -> its Semaphore, or none
    attempt,            \* per caller: where it is in acquire, hold, release
    counter,            \* the globals tree's COUNTER record: <<>> or <<bytes>>
    count_call,         \* per worker: the next_count call in flight
    count_ret,          \* what the last completed counter call returned
    returned,           \* history: the values completed next_count calls returned
    latest,             \* history: the value the latest increment produced
    counts,             \* history: number of next_count calls begun
    tls_name_override,  \* TlsNameMap: hostname -> (ips, port), or none
    resolved            \* what the federation client's last name lookup returned

trustVars == <<server_signingkeys, call, ret, supplied, calls>>
keyVars == <<kp_store, load_ret, loads, kp_writes, corruptions, issued>>

rotVars == <<tail_pos, rx_cnt, buffer, rx, fires_since, wakes, lost>>

lockVars == <<registry, reg_guard, mutex, task, created>>

rateVars == <<ratelimiter, now, failures, last_call, rl_target>>

semVars == <<servername_ratelimiter, attempt>>

countVars == <<counter, count_call, count_ret, returned, latest, counts>>

tlsVars == <<tls_name_override, resolved>>

vars ==
    <<trustVars, keyVars, rotVars, lockVars, rateVars, semVars, countVars, tlsVars>>

\* What the actions of each component leave alone: the other components.
trustFrame == <<keyVars, rotVars, lockVars, rateVars, semVars, countVars, tlsVars>>
keyFrame == <<trustVars, rotVars, lockVars, rateVars, semVars, countVars, tlsVars>>
rotFrame == <<trustVars, keyVars, lockVars, rateVars, semVars, countVars, tlsVars>>
lockFrame == <<trustVars, keyVars, rotVars, rateVars, semVars, countVars, tlsVars>>
rateFrame == <<trustVars, keyVars, rotVars, lockVars, semVars, countVars, tlsVars>>
semFrame == <<trustVars, keyVars, rotVars, lockVars, rateVars, countVars, tlsVars>>
countFrame == <<trustVars, keyVars, rotVars, lockVars, rateVars, semVars, tlsVars>>
tlsFrame == <<trustVars, keyVars, rotVars, lockVars, rateVars, semVars, countVars>>

-----------------------------------------------------------------------------
(* Bounds *)

MaxCalls == 2       \* add_signing_key calls begun, callers running concurrently
MaxSeqCalls == 3    \* add_signing_key calls begun, one call after another
MaxMergeCalls == 3  \* add_signing_key calls begun by the one caller that merges
MaxLoads == 4       \* Globals::load calls in one behaviour
MaxCorruptions == 2 \* external corruptions of the keypair record in one behaviour
MaxFires == 3       \* RotationHandler::fire calls in one behaviour
MaxTime == 2        \* ticks of the monotonic clock in one behaviour
MaxFailures == 3    \* failures recorded for one key without a clear
MaxCounts == 3      \* next_count calls begun in one behaviour

-----------------------------------------------------------------------------
(* Trust store: Globals::add_signing_key, Globals::signing_keys_for *)

Callers == {"c1", "c2"}
Origins == {"a.org", "b.org"}
KeyIds == {1, 2}            \* ServerSigningKeyId "ed25519:1", "ed25519:2"
KeyVals == {"x", "y"}       \* Base64 public keys

Absent == [kind |-> "absent"]      \* Tree::get returned None
Garbage == [kind |-> "garbage"]    \* stored bytes serde_json cannot decode
None == [kind |-> "none"]          \* Option::None

EmptyMap == <<>>                   \* BTreeMap::new()

Ok(v) == [kind |-> "Ok", value |-> v]
Err(e) == [kind |-> "Err", error |-> e]

\* An extend that drops an entry of m whose key n repeats.
ExtendDroppingRepeated(m, n) ==
    [k \in ((DOMAIN m) \ (DOMAIN n)) \cup ((DOMAIN n) \ (DOMAIN m)) |->
        IF k \in DOMAIN n THEN n[k] ELSE m[k]]

\* An extend that keeps the entry of m when n holds the same key.
ExtendKeepingStored(m, n) ==
    [k \in (DOMAIN m) \cup (DOMAIN n) |-> IF k \in DOMAIN m THEN m[k] ELSE n[k]]

\* BTreeMap::extend: every entry of n is inserted, replacing an equal key of m.
Extend(m, n) ==
    [k \in (DOMAIN m) \cup (DOMAIN n) |-> IF k \in DOMAIN n THEN n[k] ELSE m[k]]

VerifyKey(v) == [key |-> v]
\* An expired key: its public key and the time it expired (one sample time).
OldVerifyKey(v) == [expired_ts |-> 7, key |-> v]

\* All maps from a subset of KeyIds to the values of V.
Maps(V) == UNION {[D -> V] : D \in SUBSET KeyIds}

\* ServerSigningKeys::new(origin, now): no keys.
NewServerSigningKeys(origin) ==
    [server_name |-> origin, verify_keys |-> EmptyMap, old_verify_keys |-> EmptyMap]

\* The ServerSigningKeys a fetch can supply.
FetchedKeys ==
    {[verify_keys |-> vk, old_verify_keys |-> ovk] :
        vk \in Maps({VerifyKey(v) : v \in KeyVals}),
        ovk \in Maps({OldVerifyKey(v) : v \in KeyVals})}

\* The fetches the callers pass: those that supply at most one key id.
Fetches ==
    {f \in FetchedKeys :
        Cardinality(DOMAIN f.verify_keys) + Cardinality(DOMAIN f.old_verify_keys)
            <= 1}

\* serde_json writes a BTreeMap as an object whose members are in key order:
\* the sequence of <<key id, value>> pairs, ascending.
RECURSIVE MapToJson(_)
MapToJson(m) ==
    IF DOMAIN m = {} THEN <<>>
    ELSE LET k == CHOOSE x \in DOMAIN m : \A y \in DOMAIN m : x <= y
             rest == [j \in (DOMAIN m) \ {k} |-> m[j]]
         IN <<(<<k, m[k]>>)>> \o MapToJson(rest)

\* serde_json reads an object into a BTreeMap member by member (a repeated
\* key keeps its last value).
RECURSIVE JsonToMap(_)
JsonToMap(s) ==
    IF s = <<>> THEN EmptyMap
    ELSE LET n == Len(s)
             front == JsonToMap(SubSeq(s, 1, n - 1))
         IN Extend(front, [k \in {s[n][1]} |-> s[n][2]])

\* serde_json::to_vec(&keys)
ToVec(keys) ==
    [kind |-> "json", server_name |-> keys.server_name,
     verify_keys |-> MapToJson(keys.verify_keys),
     old_verify_keys |-> MapToJson(keys.old_verify_keys)]

\* serde_json::from_slice(&bytes).ok(): None for bytes that do not decode.
FromSlice(bytes) ==
    IF bytes = Garbage THEN None
    ELSE [server_name |-> bytes.server_name,
          verify_keys |-> JsonToMap(bytes.verify_keys),
          old_verify_keys |-> JsonToMap(bytes.old_verify_keys)]

\* signingkeys.and_then(|keys| from_slice(&keys).ok()): Option<ServerSigningKeys>
Decoded(stored) == IF stored = Absent THEN None ELSE FromSlice(stored)

\* A lookup table in which a current key wins over an old key of the same id.
KeyTreeCurrentWins(keys) ==
    Extend([k \in DOMAIN keys.old_verify_keys |->
                VerifyKey(keys.old_verify_keys[k].key)],
           keys.verify_keys)

\* The lookup table both operations return: verify_keys extended with the
\* old keys, each turned into VerifyKey::new(old.key).
KeyTree(keys) ==
    Extend(keys.verify_keys,
           [k \in DOMAIN keys.old_verify_keys |->
                VerifyKey(keys.old_verify_keys[k].key)])

\* The record add_signing_key starts from after its read.
LoadedKeys(origin, stored) ==
    IF Decoded(stored) = None THEN NewServerSigningKeys(origin) ELSE Decoded(stored)

\* A merge that drops the stored keys the fetch does not repeat.
MergedKeysReplacing(keys, new_keys) ==
    [server_name |-> keys.server_name,
     verify_keys |-> new_keys.verify_keys,
     old_verify_keys |-> new_keys.old_verify_keys]

\* keys.verify_keys.extend(..); keys.old_verify_keys.extend(..)
MergedKeys(keys, new_keys) ==
    [server_name |-> keys.server_name,
     verify_keys |-> Extend(keys.verify_keys, new_keys.verify_keys),
     old_verify_keys |-> Extend(keys.old_verify_keys, new_keys.old_verify_keys)]

\* A signing_keys_for that reports a missing record as a database error.
SigningKeysForAbsentIsError(stored) ==
    IF Decoded(stored) = None THEN Err("bad_database") ELSE Ok(KeyTree(Decoded(stored)))

\* What signing_keys_for returns for the stored bytes:
\* .map(|keys| tree).unwrap_or_else(BTreeMap::new), wrapped in Ok.
SigningKeysForResult(stored) ==
    IF Decoded(stored) = None THEN Ok(EmptyMap) ELSE Ok(KeyTree(Decoded(stored)))

Idle == [pc |-> "idle"]
NoRet == [op |-> "none"]

\* add_signing_key, first half: the read of the stored record.
AddSigningKeyRead(c, origin, new_keys) ==
    /\ call[c].pc = "idle"
    /\ calls' = calls + 1
    /\ call' = [call EXCEPT ![c] =
                    [pc |-> "read", origin |-> origin, new_keys |-> new_keys,
                     keys |-> LoadedKeys(origin, server_signingkeys[origin])]]
    /\ UNCHANGED <<server_signingkeys, ret, supplied, trustFrame>>

\* add_signing_key, second half: merge, insert, return the lookup table.
\* Beside the result, ret records (as history) the arguments of the call, the
\* record the call had loaded, and whether the call repeats the call that
\* completed just before it.
AddSigningKeyWrite(c) ==
    /\ call[c].pc = "read"
    /\ LET origin == call[c].origin
           merged == MergedKeys(call[c].keys, call[c].new_keys)
       IN /\ server_signingkeys' =
                 [server_signingkeys EXCEPT ![origin] = ToVec(merged)]
          /\ ret' = [op |-> "add_signing_key", origin |-> origin,
                     new_keys |-> call[c].new_keys,
                     before |-> call[c].keys,
                     again |-> /\ ret.op = "add_signing_key"
                               /\ ret.origin = origin
                               /\ ret.new_keys = call[c].new_keys,
                     result |-> Ok(KeyTree(merged))]
          /\ supplied' = [supplied EXCEPT ![origin] =
                            [verify_keys |-> @.verify_keys
                                 \cup DOMAIN call[c].new_keys.verify_keys,
                             old_verify_keys |-> @.old_verify_keys
                                 \cup DOMAIN call[c].new_keys.old_verify_keys]]
    /\ call' = [call EXCEPT ![c] = Idle]
    /\ UNCHANGED <<calls, trustFrame>>

\* signing_keys_for: one read, no write.  Beside the result, ret records (as
\* history) whether a record was found and whether the call follows a
\* completed add_signing_key for the same origin.
SigningKeysFor(c, origin) ==
    /\ call[c].pc = "idle"
    /\ ret' = [op |-> "signing_keys_for", origin |-> origin,
               found |-> server_signingkeys[origin] # Absent,
               after_add |-> ret.op = "add_signing_key" /\ ret.origin = origin,
               result |-> SigningKeysForResult(server_signingkeys[origin])]
    /\ UNCHANGED <<server_signingkeys, call, supplied, calls, trustFrame>>

\* No add_signing_key call is between its read and its write.
NoCallInFlight == \A c \in Callers : call[c].pc = "idle"

\* The store at start-up: no record, or bytes that do not decode.
InitTrustVars ==
    /\ server_signingkeys \in [Origins -> {Absent, Garbage}]
    /\ call = [c \in Callers |-> Idle]
    /\ ret = NoRet
    /\ supplied = [o \in Origins |-> [verify_keys |-> {}, old_verify_keys |-> {}]]
    /\ calls = 0

\* The trust store at rest, for the specifications of the other components.
QuietTrustVars ==
    /\ server_signingkeys = [o \in Origins |-> Absent]
    /\ call = [c \in Callers |-> Idle]
    /\ ret = NoRet
    /\ supplied = [o \in Origins |-> [verify_keys |-> {}, old_verify_keys |-> {}]]
    /\ calls = 0

-----------------------------------------------------------------------------
(* Key material: the keypair part of Globals::load *)

NoRecord == <<>>            \* Tree::get returned None
Some(b) == <<b>>            \* Tree::get returned Some(b)

Separator == 255            \* the 0xff between version and key

\* Bytes an external corruption can write: an ASCII digit (also DER's SEQUENCE
\* tag), a small byte, a lone UTF-8 continuation byte, a UTF-8 two-byte lead,
\* and 0xff.
CorruptBytes == {1, 48, 128, 194, 255}

\* utils::string_from_bytes succeeds on well-formed UTF-8: one-byte and
\* two-byte forms decide every sequence over the bytes used here.
RECURSIVE ValidUtf8(_)
ValidUtf8(s) ==
    IF s = <<>> THEN TRUE
    ELSE IF s[1] < 128 THEN ValidUtf8(Tail(s))
    ELSE IF s[1] >= 194 /\ s[1] <= 223
         THEN /\ Len(s) >= 2
              /\ s[2] >= 128 /\ s[2] <= 191
              /\ ValidUtf8(SubSeq(s, 3, Len(s)))
    ELSE FALSE

\* The positions of 0xff in the bytes.
SeparatorsOf(bytes) == {i \in 1..Len(bytes) : bytes[i] = Separator}

\* A split at the last 0xff instead of the first.
SplitAtLastSeparator(bytes) ==
    IF SeparatorsOf(bytes) = {} THEN <<bytes>>
    ELSE LET i == CHOOSE x \in SeparatorsOf(bytes) : \A y \in SeparatorsOf(bytes) : y <= x
         IN <<SubSeq(bytes, 1, i - 1), SubSeq(bytes, i + 1, Len(bytes))>>

\* keypair_bytes.splitn(2, |&b| b == 0xff): the part before the first 0xff
\* and, when there is one, everything after it.
SplitN2(bytes) ==
    IF SeparatorsOf(bytes) = {} THEN <<bytes>>
    ELSE LET i == CHOOSE x \in SeparatorsOf(bytes) : \A y \in SeparatorsOf(bytes) : x <= y
         IN <<SubSeq(bytes, 1, i - 1), SubSeq(bytes, i + 1, Len(bytes))>>

\* The public key that belongs to a private key (one byte each here).
PublicOf(private) == 256 - private

\* Ed25519KeyPair::from_der accepts a well-formed document whose public key
\* belongs to its private key: here a SEQUENCE tag (0x30), a length byte,
\* exactly that many content bytes, and as content the private key byte
\* followed by its public key byte.
DerDecodes(key) ==
    /\ Len(key) = 4
    /\ key[1] = 48
    /\ key[2] = Len(key) - 2
    /\ key[4] = PublicOf(key[3])

\* The documents Ed25519KeyPair::generate produces (one holds a 0xff byte).
GeneratedDers == {<<48, 2, 1, PublicOf(1)>>, <<48, 2, 2, PublicOf(2)>>}

\* random_string: alphanumeric version strings ("0", "a").
GeneratedVersions == {<<48>>, <<97>>}

\* utils::generate_keypair: version, 0xff, document.
GeneratedKeypairs ==
    {v \o <<Separator>> \o d : v \in GeneratedVersions, d \in GeneratedDers}

\* The parse of load: version, then key, then from_der(key, version).
ParseKeypair(bytes) ==
    LET parts == SplitN2(bytes)
    IN IF ~ValidUtf8(parts[1]) THEN Err("Invalid version bytes in keypair.")
       ELSE IF Len(parts) < 2 THEN Err("Invalid keypair format in database.")
       ELSE IF ~DerDecodes(parts[2]) THEN Err("Private or public keys are invalid.")
       ELSE Ok([version |-> parts[1], der |-> parts[2]])

\* A load that, on a record that does not parse, stores a new keypair at once.
LoadOutcomeRegenerating(stored, generated) ==
    LET keypair_bytes == IF stored = NoRecord THEN generated ELSE stored[1]
        keypair == ParseKeypair(keypair_bytes)
    IN IF keypair.kind = "Ok"
       THEN [store |-> Some(keypair_bytes), ret |-> keypair,
             inserts |-> IF stored = NoRecord THEN 1 ELSE 0]
       ELSE [store |-> Some(generated), ret |-> ParseKeypair(generated), inserts |-> 1]

\* The keypair part of load on the stored record: the record after the call,
\* what the call returns, and how many inserts it made.  `generated` is what
\* utils::generate_keypair would return.
LoadOutcome(stored, generated) ==
    LET keypair_bytes == IF stored = NoRecord THEN generated ELSE stored[1]
        inserted == IF stored = NoRecord THEN Some(generated) ELSE stored
        keypair == ParseKeypair(keypair_bytes)
    IN [store |-> IF keypair.kind = "Ok" THEN inserted ELSE NoRecord,
        ret |-> keypair,
        inserts |-> IF stored = NoRecord THEN 1 ELSE 0]

\* Globals::load, up to the keypair.
Load ==
    /\ loads < MaxLoads
    /\ \E generated \in GeneratedKeypairs :
           LET out == LoadOutcome(kp_store, generated)
           IN /\ kp_store' = out.store
              /\ load_ret' = out.ret
              /\ kp_writes' = kp_writes + out.inserts
              /\ issued' = IF out.ret.kind = "Ok"
                           THEN issued \cup {out.ret.value} ELSE issued
    /\ loads' = loads + 1
    /\ UNCHANGED <<corruptions, keyFrame>>

\* The environment damages the stored record: it is cut short.
Truncate(n) ==
    /\ kp_store # NoRecord
    /\ corruptions < MaxCorruptions
    /\ n < Len(kp_store[1])
    /\ kp_store' = Some(SubSeq(kp_store[1], 1, n))
    /\ corruptions' = corruptions + 1
    /\ UNCHANGED <<load_ret, loads, kp_writes, issued, keyFrame>>

\* The environment damages the stored record: one byte is overwritten.
Overwrite(i, b) ==
    /\ kp_store # NoRecord
    /\ corruptions < MaxCorruptions
    /\ i \in 1..Len(kp_store[1])
    /\ kp_store[1][i] # b
    /\ kp_store' = Some([kp_store[1] EXCEPT ![i] = b])
    /\ corruptions' = corruptions + 1
    /\ UNCHANGED <<load_ret, loads, kp_writes, issued, keyFrame>>

\* The longest record generate_keypair writes.
MaxRecordLen == 6

InitKeyVars ==
    /\ kp_store = NoRecord
    /\ load_ret = [kind |-> "none"]
    /\ loads = 0
    /\ kp_writes = 0
    /\ corruptions = 0
    /\ issued = {}

-----------------------------------------------------------------------------
(* RotationHandler: a tokio broadcast channel of capacity 1 *)

Watchers == {"w1", "w2"}

Capacity == 1               \* broadcast::channel(1)

\* A future that does not exist: never created, dropped, or consumed.
NoFuture == [st |-> "none"]

\* A subscribe that starts the new receiver at the oldest value still held.
SubscribeFromOldest == IF tail_pos > 0 THEN tail_pos - Capacity ELSE 0

\* Sender::subscribe: the new receiver reads next at the tail, after every
\* value already sent.
SubscribeNext == tail_pos

\* A receive that takes every slot that does not hold its position as empty.
RecvRefLagIsEmpty(next) ==
    IF buffer[next % Capacity] # next
    THEN [kind |-> "Empty", next |-> next]
    ELSE [kind |-> "Ok", next |-> next + 1]

\* Receiver::recv_ref for a receiver at position next: the value, nothing
\* yet, or the report that values were overwritten before it read them.
RecvRef(next) ==
    LET slot_pos == buffer[next % Capacity]
        oldest == tail_pos - Capacity
    IN IF slot_pos # next
       THEN IF slot_pos + Capacity = next
            THEN [kind |-> "Empty", next |-> next]
            ELSE IF oldest - next = 0
                 THEN [kind |-> "Ok", next |-> next + 1]
                 ELSE [kind |-> "Lagged", next |-> oldest, missed |-> oldest - next]
       ELSE [kind |-> "Ok", next |-> next + 1]

\* Sender::send: Err when no receiver lives, else the value goes into the
\* slot of the tail position and the tail advances.
SendResult == IF rx_cnt = 0 THEN Err("SendError") ELSE Ok(rx_cnt)

\* RotationHandler::watch: subscribes at once, returns the future.
Watch(w) ==
    /\ rx[w].st = "none"
    /\ rx' = [rx EXCEPT ![w] =
                 [st |-> "waiting", next |-> SubscribeNext, polled |-> FALSE]]
    /\ rx_cnt' = rx_cnt + 1
    /\ fires_since' = [fires_since EXCEPT ![w] = 0]
    /\ wakes' = [wakes EXCEPT ![w] = 0]
    /\ UNCHANGED <<tail_pos, buffer, lost, rotFrame>>

\* RotationHandler::fire: let _ = self.0.send(()).
Fire ==
    /\ tail_pos < MaxFires
    /\ IF SendResult.kind = "Ok"
       THEN /\ buffer' = [buffer EXCEPT ![tail_pos % Capacity] = tail_pos]
            /\ tail_pos' = tail_pos + 1
       ELSE UNCHANGED <<buffer, tail_pos>>
    /\ fires_since' = [w \in Watchers |->
                          IF rx[w].st = "waiting" THEN fires_since[w] + 1
                          ELSE fires_since[w]]
    /\ lost' = IF \A w \in Watchers : rx[w].st # "waiting" THEN lost + 1 ELSE lost
    /\ UNCHANGED <<rx_cnt, rx, wakes, rotFrame>>

\* A future that subscribes when it is first polled, not in watch().
ReceiverPositionLazy(w) == IF rx[w].polled THEN rx[w].next ELSE tail_pos

\* The position of the receiver the future owns: the async block captures
\* (async move) the receiver that watch() subscribed before returning.
ReceiverPosition(w) == rx[w].next

\* The executor polls the future: let _ = r.recv().await.  On Empty the
\* future stays suspended; on a value or a lag report it completes and its
\* receiver is dropped.  The completed future records (as history) whether
\* an earlier poll had left it suspended.
Poll(w) ==
    /\ rx[w].st = "waiting"
    /\ LET r == RecvRef(ReceiverPosition(w))
       IN IF r.kind = "Empty"
          THEN /\ rx' = [rx EXCEPT ![w].polled = TRUE, ![w].next = r.next]
               /\ UNCHANGED <<rx_cnt, wakes>>
          ELSE /\ rx' = [rx EXCEPT ![w] =
                             [st |-> "done", out |-> r.kind,
                              polled |-> rx[w].polled]]
               /\ rx_cnt' = rx_cnt - 1
               /\ wakes' = [wakes EXCEPT ![w] = wakes[w] + 1]
    /\ UNCHANGED <<tail_pos, buffer, fires_since, lost, rotFrame>>

\* The long-poll worker gives up (its timeout won the race): the suspended
\* future and its receiver are dropped.
Cancel(w) ==
    /\ rx[w].st = "waiting"
    /\ rx' = [rx EXCEPT ![w] = NoFuture]
    /\ rx_cnt' = rx_cnt - 1
    /\ UNCHANGED <<tail_pos, buffer, fires_since, wakes, lost, rotFrame>>

\* The worker has consumed the completed future and may watch again.
Consume(w) ==
    /\ rx[w].st = "done"
    /\ rx' = [rx EXCEPT ![w] = NoFuture]
    /\ UNCHANGED <<tail_pos, rx_cnt, buffer, fires_since, wakes, lost, rotFrame>>

\* RotationHandler::new: the channel and the receiver the handler keeps.
InitRotVars ==
    /\ tail_pos = 0
    /\ rx_cnt = 1
    /\ buffer = [i \in 0..(Capacity - 1) |-> i - Capacity]
    /\ rx = [w \in Watchers |-> NoFuture]
    /\ fires_since = [w \in Watchers |-> 0]
    /\ wakes = [w \in Watchers |-> 0]
    /\ lost = 0

-----------------------------------------------------------------------------
(* Lock registry: roomid_mutex_insert, roomid_mutex_state,                *)
(* roomid_mutex_federation.  The lookup and the locking are done by the   *)
(* callers of Globals, on the fields Globals declares.                    *)

Tasks == {"t1", "t2", "t3"}
Rooms == {"!r1", "!r2"}
Domains == {"insert", "state", "federation"}

\* insert holds std::sync::Mutex, state and federation hold tokio's Mutex.
IsTokioMutex(d) == d \in {"state", "federation"}

NoLock == <<>>              \* no entry in the map / no handle
Free == "free"              \* no owner

IdleTask == [pc |-> "idle", dom |-> "-", room |-> "-", found |-> NoLock, handle |-> NoLock]

\* A registry whose map is not guarded against a second writer.
RegistryUnguarded(d) == TRUE

\* RwLock::write succeeds when nobody holds the guard of the domain's map.
RegistryFree(d) == reg_guard[d] = Free

\* A mutex that lets a caller in while another holds it.
MutexAlwaysAvailable(lock) == TRUE

\* A mutex that is taken while any lock of the same room, in whatever
\* domain, is held or waited for.
MutexAvailableRoomWide(lock) ==
    \A l \in DOMAIN mutex :
        (l[2] = lock[2]) => (mutex[l].owner = Free /\ mutex[l].queue = <<>>)

\* Mutex::lock returns at once when the mutex is free; tokio's Mutex, which
\* serves its waiters in arrival order, also wants nobody to wait in front.
\* std's Mutex lets a caller in ahead of the threads parked in lock().
MutexAvailable(lock) ==
    /\ mutex[lock].owner = Free
    /\ IsTokioMutex(lock[1]) => mutex[lock].queue = <<>>

\* The waiters an unlock passes the mutex to: tokio's Mutex hands it to the
\* first of its queue; std's Mutex hands it to nobody, it is released and
\* whoever locks next gets it.
NextOwners(lock) == IF IsTokioMutex(lock[1]) THEN {1} ELSE {}

\* The queue without its i-th waiter.
Without(q, i) == SubSeq(q, 1, i - 1) \o SubSeq(q, i + 1, Len(q))

\* registry.write(): the task takes the write guard of the domain's map.
RegistryWrite(t, d, r) ==
    /\ task[t].pc = "idle"
    /\ RegistryFree(d)
    /\ reg_guard' = [reg_guard EXCEPT ![d] = t]
    /\ task' = [task EXCEPT ![t] = [IdleTask EXCEPT !.pc = "guarded", !.dom = d, !.room = r]]
    /\ UNCHANGED <<registry, mutex, created, lockFrame>>

\* .entry(room_id): the task looks the room up in the map.
EntryLookup(t) ==
    /\ task[t].pc = "guarded"
    /\ task' = [task EXCEPT ![t].pc = "looked_up",
                            ![t].found = registry[task[t].dom][task[t].room]]
    /\ UNCHANGED <<registry, reg_guard, mutex, created, lockFrame>>

\* .or_default(), Arc::clone, end of the guard: a vacant entry gets a new
\* lock object; the task leaves with a handle to the entry's lock object
\* (the entry it looked at is gone with the guard).
EntryOrDefault(t) ==
    /\ task[t].pc = "looked_up"
    /\ LET d == task[t].dom
           r == task[t].room
           new == <<d, r, created[d][r] + 1>>
       IN IF task[t].found = NoLock
          THEN /\ registry' = [registry EXCEPT ![d][r] = new]
               /\ created' = [created EXCEPT ![d][r] = @ + 1]
               /\ mutex' = (new :> [owner |-> Free, queue |-> <<>>]) @@ mutex
               /\ task' = [task EXCEPT ![t].pc = "handle", ![t].handle = new,
                                       ![t].found = NoLock]
          ELSE /\ task' = [task EXCEPT ![t].pc = "handle", ![t].handle = task[t].found,
                                       ![t].found = NoLock]
               /\ UNCHANGED <<registry, created, mutex>>
    /\ reg_guard' = [reg_guard EXCEPT ![task[t].dom] =
                        IF @ = t THEN Free ELSE @]
    /\ UNCHANGED lockFrame

\* handle.lock(): the task gets the mutex, or joins its wait queue.
LockCall(t) ==
    /\ task[t].pc = "handle"
    /\ LET lock == task[t].handle
       IN IF MutexAvailable(lock)
          THEN /\ mutex' = [mutex EXCEPT ![lock].owner = t]
               /\ task' = [task EXCEPT ![t].pc = "holding"]
          ELSE /\ mutex' = [mutex EXCEPT ![lock].queue = Append(@, t)]
               /\ task' = [task EXCEPT ![t].pc = "waiting"]
    /\ UNCHANGED <<registry, reg_guard, created, lockFrame>>

\* The guard is dropped: the mutex passes to a waiter, or becomes free.
Unlock(t) ==
    /\ task[t].pc = "holding"
    /\ LET lock == task[t].handle
           q == mutex[lock].queue
       IN IF q = <<>> \/ NextOwners(lock) = {}
          THEN /\ mutex' = [mutex EXCEPT ![lock].owner =
                               IF @ = t THEN Free ELSE @]
               /\ task' = [task EXCEPT ![t] = IdleTask]
          ELSE \E i \in NextOwners(lock) :
                  /\ mutex' = [mutex EXCEPT ![lock].owner = q[i],
                                            ![lock].queue = Without(q, i)]
                  /\ task' = [task EXCEPT ![t] = IdleTask, ![q[i]].pc = "holding"]
    /\ UNCHANGED <<registry, reg_guard, created, lockFrame>>

\* A thread parked in std's Mutex::lock wakes up, finds the mutex released
\* and takes it; any parked thread may be the one.
LockWake(t) ==
    /\ task[t].pc = "waiting"
    /\ LET lock == task[t].handle
           q == mutex[lock].queue
       IN /\ ~IsTokioMutex(lock[1])
          /\ mutex[lock].owner = Free
          /\ \E i \in 1..Len(q) :
                /\ q[i] = t
                /\ mutex' = [mutex EXCEPT ![lock].owner = t,
                                          ![lock].queue = Without(q, i)]
          /\ task' = [task EXCEPT ![t].pc = "holding"]
    /\ UNCHANGED <<registry, reg_guard, created, lockFrame>>

\* Globals::load: three empty maps.
InitLockVars ==
    /\ registry = [d \in Domains |-> [r \in Rooms |-> NoLock]]
    /\ reg_guard = [d \in Domains |-> Free]
    /\ mutex = <<>>
    /\ task = [t \in Tasks |-> IdleTask]
    /\ created = [d \in Domains |-> [r \in Rooms |-> 0]]

-----------------------------------------------------------------------------
(* Rate limiters: bad_event_ratelimiter, bad_signature_ratelimiter.       *)
(* The maps are fields of Globals; their callers record and clear.        *)

Limiters == {"bad_event", "bad_signature"}
RateKeys == {"k1", "k2"}

NoEntry == <<>>             \* the key is not in the map

\* An update that counts the failure and keeps the time of the first one.
FailureEntryKeepsFirstTime(old, t) ==
    IF old = NoEntry THEN <<t, 1>> ELSE <<old[1], old[2] + 1>>

\* record_failure's new RateLimitState (Instant, u32): (now, 1) for a vacant
\* entry, (now, count + 1) for an occupied one (counts stay far below 2^32).
FailureEntry(old, t) ==
    IF old = NoEntry THEN <<t, 1>> ELSE <<t, old[2] + 1>>

\* record_failure(k) on one of the maps.
RecordFailure(m, k) ==
    /\ failures[m][k] < MaxFailures
    /\ ratelimiter' = [ratelimiter EXCEPT ![m][k] = FailureEntry(@, now)]
    /\ failures' = [failures EXCEPT ![m][k] = @ + 1]
    /\ last_call' = [last_call EXCEPT ![m][k] = now]
    /\ rl_target' = <<m, k>>
    /\ UNCHANGED <<now, rateFrame>>

\* clear(k): the key is removed after an observed success.
Clear(m, k) ==
    /\ ratelimiter' = [ratelimiter EXCEPT ![m][k] = NoEntry]
    /\ failures' = [failures EXCEPT ![m][k] = 0]
    /\ rl_target' = <<m, k>>
    /\ UNCHANGED <<now, last_call, rateFrame>>

\* Time passes.
Tick ==
    /\ now < MaxTime
    /\ now' = now + 1
    /\ UNCHANGED <<ratelimiter, failures, last_call, rl_target, rateFrame>>

\* Globals::load: two empty maps.
InitRateVars ==
    /\ ratelimiter = [m \in Limiters |-> [k \in RateKeys |-> NoEntry]]
    /\ now = 0
    /\ failures = [m \in Limiters |-> [k \in RateKeys |-> 0]]
    /\ last_call = [m \in Limiters |-> [k \in RateKeys |-> 0]]
    /\ rl_target = <<>>

-----------------------------------------------------------------------------
(* Per-server concurrency gate: servername_ratelimiter.  The map is a     *)
(* field of Globals; its callers take a permit of the server's Semaphore  *)
(* before an attempt and drop it when the attempt ends.                   *)

Attempts == {"a1", "a2", "a3", "a4"}
Servers == {"s1.org", "s2.org"}

\* The configured maximum of concurrent attempts to one server.
MaxPermits == 2

NoSemaphore == [kind |-> "none"]       \* the server is not in the map

\* Semaphore::new(MaxPermits): all permits available, nobody waiting.
NewSemaphore == [kind |-> "semaphore", permits |-> MaxPermits, waiters |-> <<>>]

IdleAttempt == [pc |-> "idle", server |-> "-"]

\* entry(server_name).or_insert_with(Semaphore::new): the server's semaphore,
\* created on first use.
SemaphoreOf(s) ==
    IF servername_ratelimiter[s] = NoSemaphore
    THEN NewSemaphore ELSE servername_ratelimiter[s]

\* A gate that lets every caller in.
PermitAlwaysAvailable(sem) == TRUE

\* Semaphore::acquire gets a permit at once when one is available and
\* nobody waits in front.
PermitAvailable(sem) == sem.permits > 0 /\ sem.waiters = <<>>

\* acquire_server_permit(server_name): the caller gets a permit or joins the
\* semaphore's wait queue.
AcquireServerPermit(a, s) ==
    /\ attempt[a].pc = "idle"
    /\ LET sem == SemaphoreOf(s)
       IN IF PermitAvailable(sem)
          THEN /\ servername_ratelimiter' =
                      [servername_ratelimiter EXCEPT ![s] =
                          [sem EXCEPT !.permits = @ - 1]]
               /\ attempt' = [attempt EXCEPT ![a] = [pc |-> "holding", server |-> s]]
          ELSE /\ servername_ratelimiter' =
                      [servername_ratelimiter EXCEPT ![s] =
                          [sem EXCEPT !.waiters = Append(@, a)]]
               /\ attempt' = [attempt EXCEPT ![a] = [pc |-> "waiting", server |-> s]]
    /\ UNCHANGED semFrame

\* The permit goes out of scope: it returns to the semaphore, which passes
\* it to the first waiter if there is one.
ReleasePermit(a) ==
    /\ attempt[a].pc = "holding"
    /\ LET s == attempt[a].server
           sem == servername_ratelimiter[s]
       IN IF sem.waiters = <<>>
          THEN /\ servername_ratelimiter' =
                      [servername_ratelimiter EXCEPT ![s].permits = @ + 1]
               /\ attempt' = [attempt EXCEPT ![a] = IdleAttempt]
          ELSE /\ servername_ratelimiter' =
                      [servername_ratelimiter EXCEPT ![s].waiters = Tail(@)]
               /\ attempt' = [attempt EXCEPT ![a] = IdleAttempt,
                                             ![Head(sem.waiters)].pc = "holding"]
    /\ UNCHANGED semFrame

\* Globals::load: an empty map.
InitSemVars ==
    /\ servername_ratelimiter = [s \in Servers |-> NoSemaphore]
    /\ attempt = [a \in Attempts |-> IdleAttempt]

-----------------------------------------------------------------------------
(* Global counter: Globals::next_count, Globals::current_count *)

Workers == {"p1", "p2"}

\* n.to_be_bytes(): len bytes, most significant first.
RECURSIVE ToBeBytes(_, _)
ToBeBytes(n, len) ==
    IF len = 0 THEN <<>> ELSE ToBeBytes(n \div 256, len - 1) \o <<n % 256>>

\* u64::from_be_bytes(array)
RECURSIVE FromBeBytes(_)
FromBeBytes(bytes) ==
    IF bytes = <<>> THEN 0
    ELSE FromBeBytes(SubSeq(bytes, 1, Len(bytes) - 1)) * 256 + bytes[Len(bytes)]

\* utils::u64_from_bytes: the bytes must be an array of 8.
U64FromBytes(bytes) ==
    IF Len(bytes) = 8 THEN Ok(FromBeBytes(bytes)) ELSE Err("TryFromSliceError")

\* Tree::increment, the store's monotonic counter: one more than the stored
\* number, 1 for a record that does not exist.  A stored counter that does
\* not decode is never silently defaulted: the store does not count it up,
\* the record stays and its bytes are handed back for next_count to decode.
Increment(stored) ==
    IF stored = NoRecord THEN Some(ToBeBytes(1, 8))
    ELSE IF U64FromBytes(stored[1]).kind = "Ok"
         THEN Some(ToBeBytes(U64FromBytes(stored[1]).value + 1, 8))
         ELSE stored

\* A next_count that counts from 0 again when the bytes do not decode.
NextCountResultDefaulting(bytes) ==
    IF U64FromBytes(bytes).kind = "Ok" THEN U64FromBytes(bytes) ELSE Ok(0)

\* next_count: u64_from_bytes(&incremented).map_err(bad_database)
NextCountResult(bytes) ==
    IF U64FromBytes(bytes).kind = "Ok"
    THEN U64FromBytes(bytes) ELSE Err("Count has invalid bytes.")

\* current_count: get(COUNTER)?.map_or(Ok(0), u64_from_bytes .. map_err)
CurrentCountResult(stored) ==
    IF stored = NoRecord THEN Ok(0)
    ELSE IF U64FromBytes(stored[1]).kind = "Ok"
         THEN U64FromBytes(stored[1]) ELSE Err("Count has invalid bytes.")

IdleCount == [pc |-> "idle"]

\* next_count, first half: self.globals.increment(COUNTER), one atomic
\* operation of the store.  The call remembers (as history) the record it
\* found and the values that calls completed before it had returned.
NextCountIncrement(p) ==
    /\ count_call[p].pc = "idle"
    /\ counts < MaxCounts
    /\ LET incremented == Increment(counter)
       IN /\ counter' = incremented
          /\ count_call' = [count_call EXCEPT ![p] =
                               [pc |-> "incremented", bytes |-> incremented[1],
                                found |-> counter, before |-> returned]]
          /\ latest' = IF U64FromBytes(incremented[1]).kind = "Ok"
                       THEN FromBeBytes(incremented[1]) ELSE latest
    /\ counts' = counts + 1
    /\ UNCHANGED <<count_ret, returned, countFrame>>

\* next_count, second half: decode the bytes and return.
NextCountReturn(p) ==
    /\ count_call[p].pc = "incremented"
    /\ LET result == NextCountResult(count_call[p].bytes)
       IN /\ count_ret' = [op |-> "next_count", result |-> result,
                           found |-> count_call[p].found,
                           before |-> count_call[p].before,
                           fresh |-> result.kind = "Ok" /\ result.value \notin returned]
          /\ returned' = IF result.kind = "Ok"
                         THEN returned \cup {result.value} ELSE returned
    /\ count_call' = [count_call EXCEPT ![p] = IdleCount]
    /\ UNCHANGED <<counter, latest, counts, countFrame>>

\* current_count: one read, no write.
CurrentCount(p) ==
    /\ count_call[p].pc = "idle"
    /\ count_ret' = [op |-> "current_count", result |-> CurrentCountResult(counter),
                     found |-> counter, before |-> returned, fresh |-> FALSE]
    /\ UNCHANGED <<counter, count_call, returned, latest, counts, countFrame>>

\* The environment damages the stored record: it is cut short.
TruncateCounter(n) ==
    /\ counter # NoRecord
    /\ n < Len(counter[1])
    /\ counter' = Some(SubSeq(counter[1], 1, n))
    /\ UNCHANGED <<count_call, count_ret, returned, latest, counts, countFrame>>

\* The largest count a database may start with (254: the next counts carry
\* into the second byte).
CountedBefore == 254

\* A new database has no COUNTER record; a database that was used before
\* holds the count it reached.
InitCountVars ==
    /\ latest \in {0, CountedBefore}
    /\ counter = IF latest = 0 THEN NoRecord ELSE Some(ToBeBytes(latest, 8))
    /\ count_call = [p \in Workers |-> IdleCount]
    /\ count_ret = [op |-> "none"]
    /\ returned = {}
    /\ counts = 0

\* The counter of a new database, for the specifications of the other
\* components.
QuietCountVars ==
    /\ latest = 0
    /\ counter = NoRecord
    /\ count_call = [p \in Workers |-> IdleCount]
    /\ count_ret = [op |-> "none"]
    /\ returned = {}
    /\ counts = 0

-----------------------------------------------------------------------------
(* TLS name override: the federation client's resolve_fn closure *)

Hostnames == {"h1", "h2"}
Ips == {"10.0.0.1", "10.0.0.2"}
Ports == {443, 8448}

\* Vec<IpAddr>: the lists of at most two addresses.
IpLists == {<<>>} \cup {<<i>> : i \in Ips} \cup {<<i, j>> : i \in Ips, j \in Ips}

NoOverride == <<>>                      \* the hostname is not in the map

\* Some(SocketAddr::new(ip, port))
SomeAddr(ip, port) == [kind |-> "Some", ip |-> ip, port |-> port]

\* A hook that takes the last address of the list.
ResolveFnLastIp(map, domain) ==
    IF map[domain] = NoOverride THEN None
    ELSE LET override_name == map[domain][1]
             port == map[domain][2]
         IN IF override_name = <<>> THEN None
            ELSE SomeAddr(override_name[Len(override_name)], port)

\* The closure: read_guard.get(&domain)?, override_name.get(0)?,
\* Some(SocketAddr::new(*first_name, *port)).
ResolveFn(map, domain) ==
    IF map[domain] = NoOverride THEN None
    ELSE LET override_name == map[domain][1]
             port == map[domain][2]
         IN IF override_name = <<>> THEN None
            ELSE SomeAddr(override_name[1], port)

\* The federation client resolves a name: the closure reads the map it
\* shares (Arc::clone) with Globals::tls_name_override.
Resolve(domain) ==
    /\ resolved' = [domain |-> domain, result |-> ResolveFn(tls_name_override, domain)]
    /\ UNCHANGED <<tls_name_override, tlsFrame>>

\* The federation request path writes an override: HashMap::insert.
InsertOverride(domain, ips, port) ==
    /\ tls_name_override' = [tls_name_override EXCEPT ![domain] = <<ips, port>>]
    /\ UNCHANGED <<resolved, tlsFrame>>

\* Globals::load: TlsNameMap::new(), then the client is built.
InitTlsVars ==
    /\ tls_name_override = [h \in Hostnames |-> NoOverride]
    /\ resolved = [domain |-> "-", result |-> None]

-----------------------------------------------------------------------------
(* Specifications *)

\* Every component as Globals::load leaves it.
Init ==
    /\ InitTrustVars /\ InitKeyVars /\ InitRotVars /\ InitLockVars /\ InitRateVars
    /\ InitSemVars /\ InitCountVars /\ InitTlsVars

\* The same, with the trust store empty and the database new: where the
\* specifications of the other components start.
InitQuiet ==
    /\ QuietTrustVars /\ InitKeyVars /\ InitRotVars /\ InitLockVars /\ InitRateVars
    /\ InitSemVars /\ QuietCountVars /\ InitTlsVars

\* Trust store, callers running concurrently: reads and writes interleave.
InitTrust ==
    /\ InitTrustVars /\ InitKeyVars /\ InitRotVars /\ InitLockVars /\ InitRateVars
    /\ InitSemVars /\ QuietCountVars /\ InitTlsVars
NextTrust ==
    \E c \in Callers :
        \/ \E o \in Origins, f \in Fetches :
               calls < MaxCalls /\ AddSigningKeyRead(c, o, f)
        \/ AddSigningKeyWrite(c)
        \/ \E o \in Origins : SigningKeysFor(c, o)
SpecTrust == InitTrust /\ [][NextTrust]_vars

\* Trust store, calls one after another: a call starts when none is in flight.
NextTrustSeq ==
    \E c \in Callers :
        \/ \E o \in Origins, f \in Fetches :
               /\ calls < MaxSeqCalls
               /\ NoCallInFlight
               /\ AddSigningKeyRead(c, o, f)
        \/ AddSigningKeyWrite(c)
        \/ \E o \in Origins : NoCallInFlight /\ SigningKeysFor(c, o)
SpecTrustSeq == InitTrust /\ [][NextTrustSeq]_vars

\* Trust store, one caller: it merges fetch after fetch and looks keys up.
NextTrustMerge ==
    \E c \in {"c1"} :
        \/ \E o \in Origins, f \in Fetches :
               calls < MaxMergeCalls /\ AddSigningKeyRead(c, o, f)
        \/ AddSigningKeyWrite(c)
        \/ \E o \in Origins : SigningKeysFor(c, o)
SpecTrustMerge == InitTrust /\ [][NextTrustMerge]_vars

\* Key material: loads (restarts) and external corruption of the record.
InitKeypair == InitQuiet
NextKeypair ==
    \/ Load
    \/ \E n \in 0..MaxRecordLen : Truncate(n)
    \/ \E i \in 1..MaxRecordLen, b \in CorruptBytes : Overwrite(i, b)
SpecKeypair == InitKeypair /\ [][NextKeypair]_vars

\* Rotation: watchers subscribe, the handler fires, the executor polls.
InitRotate == InitQuiet
NextRotate ==
    \/ Fire
    \/ \E w \in Watchers : Watch(w)
    \/ \E w \in Watchers : Poll(w)
    \/ \E w \in Watchers : Cancel(w)
    \/ \E w \in Watchers : Consume(w)
SpecRotate == InitRotate /\ [][NextRotate]_vars

\* The executor polls a future that can make progress.
SpecRotateFair == SpecRotate /\ \A w \in Watchers : WF_vars(Poll(w))

\* Lock registry: tasks look a room's lock up, take it and give it back.
InitLocks == InitQuiet
NextLocks ==
    \E t \in Tasks :
        \/ \E d \in Domains, r \in Rooms : RegistryWrite(t, d, r)
        \/ EntryLookup(t)
        \/ EntryOrDefault(t)
        \/ LockCall(t)
        \/ LockWake(t)
        \/ Unlock(t)
SpecLocks == InitLocks /\ [][NextLocks]_vars

\* Federation lock only: every caller asks for a room's federation lock.
NextFederation ==
    \E t \in Tasks :
        \/ \E r \in Rooms : RegistryWrite(t, "federation", r)
        \/ EntryLookup(t)
        \/ EntryOrDefault(t)
        \/ LockCall(t)
        \/ Unlock(t)

\* Fair scheduling: a task that can take its next step takes it; a holder
\* gives the lock back.
SpecFederationFair ==
    /\ InitLocks
    /\ [][NextFederation]_vars
    /\ \A t \in Tasks :
          /\ WF_vars(EntryLookup(t))
          /\ WF_vars(EntryOrDefault(t))
          /\ WF_vars(LockCall(t))
          /\ WF_vars(Unlock(t))

\* Rate limiters: failures are recorded and cleared while time passes.
InitRate == InitQuiet
NextRate ==
    \/ Tick
    \/ \E m \in Limiters, k \in RateKeys : RecordFailure(m, k)
    \/ \E m \in Limiters, k \in RateKeys : Clear(m, k)
SpecRate == InitRate /\ [][NextRate]_vars

\* Concurrency gate: callers take and drop permits of the servers' semaphores.
InitPermits == InitQuiet
NextPermits ==
    \E a \in Attempts :
        \/ \E s \in Servers : AcquireServerPermit(a, s)
        \/ ReleasePermit(a)
SpecPermits == InitPermits /\ [][NextPermits]_vars

\* Global counter: workers count and read while the record may be damaged.
InitCount ==
    /\ QuietTrustVars /\ InitKeyVars /\ InitRotVars /\ InitLockVars /\ InitRateVars
    /\ InitSemVars /\ InitCountVars /\ InitTlsVars
NextCount ==
    \/ \E p \in Workers : NextCountIncrement(p)
    \/ \E p \in Workers : NextCountReturn(p)
    \/ \E p \in Workers : CurrentCount(p)
    \/ \E n \in {0, 7} : TruncateCounter(n)
SpecCount == InitCount /\ [][NextCount]_vars

\* TLS name override: overrides are written while the client resolves names.
InitOverride == InitQuiet
NextOverride ==
    \/ \E h \in Hostnames : Resolve(h)
    \/ \E h \in Hostnames, ips \in IpLists, port \in Ports :
          InsertOverride(h, ips, port)
SpecOverride == InitOverride /\ [][NextOverride]_vars

Next ==
    \/ NextTrust \/ NextKeypair \/ NextRotate \/ NextLocks \/ NextRate
    \/ NextPermits \/ NextCount \/ NextOverride
Spec == Init /\ [][Next]_vars

-----------------------------------------------------------------------------
(* Trust store claims *)

\* The key ids of the stored record of an origin (none when the record is
\* absent or does not decode).
StoredVerifyIds(o) == DOMAIN LoadedKeys(o, server_signingkeys[o]).verify_keys
StoredOldIds(o) == DOMAIN LoadedKeys(o, server_signingkeys[o]).old_verify_keys

\* C1: when add_signing_key calls for an origin run one after another, the
\* stored record holds every key id of verify_keys and of old_verify_keys that
\* a completed call supplied, and no step takes a key id out of either set.
C1_SequentialCallsOnlyGrow ==
    /\ [](\A o \in Origins :
            /\ supplied[o].verify_keys \subseteq StoredVerifyIds(o)
            /\ supplied[o].old_verify_keys \subseteq StoredOldIds(o))
    /\ [][\A o \in Origins :
            /\ StoredVerifyIds(o) \subseteq StoredVerifyIds(o)'
            /\ StoredOldIds(o) \subseteq StoredOldIds(o)']_vars

\* Three calls for one origin have completed, they supplied both key ids, and
\* the stored record holds both.
C1_Witness ==
    \E o \in Origins :
        /\ NoCallInFlight
        /\ calls = 3
        /\ supplied[o].verify_keys \cup supplied[o].old_verify_keys = KeyIds
        /\ supplied[o].verify_keys # {}
        /\ supplied[o].old_verify_keys # {}
        /\ StoredVerifyIds(o) \cup StoredOldIds(o) = KeyIds

\* C2: with concurrent add_signing_key calls (each a read followed later by a
\* write), a key id that is in the stored record of an origin stays in it in
\* every later state.
C2_StoredKeysNeverDisappear ==
    [][\A o \in Origins :
            /\ StoredVerifyIds(o) \subseteq StoredVerifyIds(o)'
            /\ StoredOldIds(o) \subseteq StoredOldIds(o)']_vars

\* C5: signing_keys_for(origin) on a store with no record for origin returns
\* Ok with the empty mapping and leaves the store without a record for origin.
C5_AbsentRecordGivesEmptyOk ==
    [][\A c \in Callers, o \in Origins :
            (SigningKeysFor(c, o) /\ server_signingkeys[o] = Absent)
                => /\ ret'.result = Ok(EmptyMap)
                   /\ server_signingkeys'[o] = Absent
                   /\ server_signingkeys' = server_signingkeys]_vars

\* signing_keys_for has just returned for an origin that has no record.
C5_Witness ==
    /\ ret.op = "signing_keys_for"
    /\ ~ret.found
    /\ ret.result = Ok(EmptyMap)
    /\ server_signingkeys[ret.origin] = Absent

\* C12: while the stored record of an origin is bytes that do not decode, no
\* step changes the record, and every signing_keys_for or add_signing_key
\* call for the origin that returns, returns a bad-database error.
C12_UndecodableRecordIsError ==
    [][\A o \in Origins :
            (server_signingkeys[o] = Garbage)
                => /\ server_signingkeys'[o] = Garbage
                   /\ (ret' # ret /\ ret'.origin = o)
                          => ret'.result.kind = "Err"]_vars

\* The stored record of an origin as add_signing_key loads it.
StoredKeys(o) == LoadedKeys(o, server_signingkeys[o])

\* C13: when add_signing_key(origin, f) completes right after a completed
\* add_signing_key(origin, f) with the same origin and the same f, it leaves
\* the stored verify_keys and old_verify_keys as the first call left them and
\* returns the key map the first call returned.
C13_AddSigningKeyIdempotent ==
    [][\A c \in Callers, o \in Origins :
            (/\ AddSigningKeyWrite(c)
             /\ call[c].origin = o
             /\ ret.op = "add_signing_key"
             /\ ret.origin = o
             /\ ret.new_keys = call[c].new_keys)
                => /\ StoredKeys(o)'.verify_keys = StoredKeys(o).verify_keys
                   /\ StoredKeys(o)'.old_verify_keys = StoredKeys(o).old_verify_keys
                   /\ ret'.result = ret.result]_vars

\* The same fetch, one that supplies a key, was merged twice in a row: the
\* second merge found both key ids stored, and the stored keys are the map
\* it returned.
C13_Witness ==
    /\ ret.op = "add_signing_key"
    /\ ret.again
    /\ NoCallInFlight
    /\ DOMAIN ret.new_keys.verify_keys \cup DOMAIN ret.new_keys.old_verify_keys # {}
    /\ DOMAIN KeyTree(ret.before) = KeyIds
    /\ KeyTree(StoredKeys(ret.origin)) = ret.result.value

\* Map `after` is map `before` overwritten by map `new`: the keys of both,
\* the value of `new` where it has the key, the value of `before` elsewhere.
Overwritten(before, new, after) ==
    /\ DOMAIN after = (DOMAIN before) \cup (DOMAIN new)
    /\ \A k \in DOMAIN new : after[k] = new[k]
    /\ \A k \in (DOMAIN before) \ (DOMAIN new) : after[k] = before[k]

\* C14: add_signing_key(origin, f), run with no other call in flight, leaves
\* for every key id of f the value of f in the stored set (verify_keys or
\* old_verify_keys) that f supplied it for, also when the set held the key id
\* with another value, and every key id not in f keeps its stored value.
C14_NewFetchOverwrites ==
    [][\A c \in Callers, o \in Origins :
            (AddSigningKeyWrite(c) /\ call[c].origin = o)
                => /\ Overwritten(StoredKeys(o).verify_keys,
                                   call[c].new_keys.verify_keys,
                                   StoredKeys(o)'.verify_keys)
                   /\ Overwritten(StoredKeys(o).old_verify_keys,
                                   call[c].new_keys.old_verify_keys,
                                   StoredKeys(o)'.old_verify_keys)]_vars

\* A call supplied a key id that its set already held with another value:
\* the set now holds the supplied value, and another key id kept its own.
C14_Witness ==
    /\ ret.op = "add_signing_key"
    /\ NoCallInFlight
    /\ \E k \in KeyIds, j \in KeyIds :
          /\ k \in DOMAIN ret.before.verify_keys
          /\ k \in DOMAIN ret.new_keys.verify_keys
          /\ ret.before.verify_keys[k] # ret.new_keys.verify_keys[k]
          /\ StoredKeys(ret.origin).verify_keys[k] = ret.new_keys.verify_keys[k]
          /\ j # k
          /\ j \in DOMAIN ret.before.verify_keys
          /\ StoredKeys(ret.origin).verify_keys[j] = ret.before.verify_keys[j]

\* C19: signing_keys_for(origin) called right after a completed
\* add_signing_key(origin, f), with no write in between, returns the key map
\* that call returned; the map either operation returns holds the key ids of
\* the stored verify_keys and old_verify_keys, with the key of old_verify_keys
\* for an id in old_verify_keys and the entry of verify_keys for any other.
C19_ReturnedMapIsStoredUnion ==
    /\ [][\A c \in Callers, o \in Origins :
            (/\ SigningKeysFor(c, o)
             /\ ret.op = "add_signing_key"
             /\ ret.origin = o) => ret'.result = ret.result]_vars
    /\ []((ret.op # "none") =>
            LET keys == StoredKeys(ret.origin)
                tree == ret.result.value
            IN /\ ret.result.kind = "Ok"
               /\ DOMAIN tree =
                      (DOMAIN keys.verify_keys) \cup (DOMAIN keys.old_verify_keys)
               /\ \A k \in DOMAIN tree :
                      tree[k] = IF k \in DOMAIN keys.old_verify_keys
                                THEN VerifyKey(keys.old_verify_keys[k].key)
                                ELSE keys.verify_keys[k])

\* signing_keys_for has just returned, right after an add_signing_key for the
\* same origin, a map whose entry for a key id stored in both sets with
\* different keys is the key of old_verify_keys.
C19_Witness ==
    /\ ret.op = "signing_keys_for"
    /\ ret.after_add
    /\ \E k \in KeyIds :
          LET keys == StoredKeys(ret.origin)
          IN /\ k \in DOMAIN keys.verify_keys
             /\ k \in DOMAIN keys.old_verify_keys
             /\ keys.verify_keys[k].key # keys.old_verify_keys[k].key
             /\ ret.result.value[k] = VerifyKey(keys.old_verify_keys[k].key)

-----------------------------------------------------------------------------
(* Key material claims *)

\* A stored record damaged in one of three ways: no 0xff separator, version
\* bytes that are not UTF-8, or a key part that does not decode as DER.
CorruptRecord(bytes) ==
    \/ SeparatorsOf(bytes) = {}
    \/ ~ValidUtf8(SplitN2(bytes)[1])
    \/ Len(SplitN2(bytes)) = 2 /\ ~DerDecodes(SplitN2(bytes)[2])

\* version || 0xFF || der
Encoded(keypair) == keypair.version \o <<255>> \o keypair.der

\* C3: a load that finds a corrupted keypair record removes the record and
\* returns an error without inserting a keypair; a load that finds no record
\* inserts version || 0xFF || der of a generated keypair and returns it.
C3_CorruptRecordDeletedThenRegenerated ==
    [][(loads' = loads + 1) =>
          /\ (kp_store # NoRecord /\ CorruptRecord(kp_store[1]))
                => /\ load_ret'.kind = "Err"
                   /\ kp_store' = NoRecord
                   /\ kp_writes' = kp_writes
          /\ (kp_store = NoRecord)
                => /\ load_ret'.kind = "Ok"
                   /\ kp_store' = Some(Encoded(load_ret'.value))
                   /\ Encoded(load_ret'.value) \in GeneratedKeypairs
                   /\ kp_writes' = kp_writes + 1]_vars

\* A record was generated, corrupted, deleted by a failing load, and a later
\* load has generated a second, different keypair that is now stored.
C3_Witness ==
    /\ corruptions >= 1
    /\ kp_writes = 2
    /\ Cardinality(issued) = 2
    /\ load_ret.kind = "Ok"
    /\ kp_store = Some(Encoded(load_ret.value))

\* C4: as long as the keypair record is not corrupted externally, it is
\* written at most once, a load that finds it leaves it unchanged, and every
\* load returns the one keypair that is stored.
C4_IdentityNeverReplaced ==
    /\ []((corruptions = 0) =>
            /\ kp_writes <= 1
            /\ Cardinality(issued) <= 1
            /\ (loads >= 1) =>
                  /\ load_ret.kind = "Ok"
                  /\ issued = {load_ret.value}
                  /\ kp_store = Some(Encoded(load_ret.value)))
    /\ [][(corruptions' = 0 /\ kp_store # NoRecord) =>
            (kp_store' = kp_store /\ kp_writes' = kp_writes)]_vars

\* Three loads have run on an uncorrupted store: one write, one keypair.
C4_Witness ==
    /\ corruptions = 0
    /\ loads >= 3
    /\ kp_writes = 1
    /\ Cardinality(issued) = 1

-----------------------------------------------------------------------------
(* RotationHandler claims *)

\* C6: a watch() future that was subscribed when fire() was called resolves
\* when polled, also after several fire() calls (a lag report resolves it
\* too); it resolves once; and under fair polling it does not stay suspended.
C6_FireWakesEverySubscriberOnce ==
    /\ [](\A w \in Watchers :
            (rx[w].st = "waiting" /\ fires_since[w] >= 1)
                => RecvRef(rx[w].next).kind # "Empty")
    /\ [](\A w \in Watchers :
            /\ wakes[w] <= 1
            /\ (rx[w].st = "done") => (wakes[w] = 1 /\ fires_since[w] >= 1))
    /\ \A w \in Watchers :
            (rx[w].st = "waiting" /\ fires_since[w] >= 1) ~> (rx[w].st # "waiting")

\* Both watchers were woken once, one of them after two or more fire() calls
\* that it had not been polled for.
C6_Witness ==
    /\ \A w \in Watchers : rx[w].st = "done" /\ wakes[w] = 1
    /\ \E w \in Watchers : rx[w].out = "Lagged" /\ fires_since[w] >= 2
    /\ \E w \in Watchers : rx[w].out = "Ok"

\* C7: fire() with no subscriber completes and changes no watcher; a watcher
\* that subscribes afterwards stays suspended until a later fire().
C7_PulseWithoutSubscriberIsDropped ==
    /\ [](\A w \in Watchers :
            (rx[w].st = "waiting" /\ fires_since[w] = 0)
                => RecvRef(rx[w].next).kind = "Empty")
    /\ [](\A w \in Watchers : (rx[w].st = "done") => fires_since[w] >= 1)
    /\ [][(lost' = lost + 1) => (rx' = rx /\ tail_pos' = tail_pos + 1)]_vars

\* A pulse was sent to nobody, and a watcher that subscribed later has been
\* polled and is still suspended.
C7_Witness ==
    /\ lost >= 1
    /\ \E w \in Watchers :
          /\ rx[w].st = "waiting"
          /\ rx[w].polled
          /\ fires_since[w] = 0

\* C15: the subscription begins in watch(): a future that has not been
\* polled yet, and since whose watch() call fire() was called, resolves at
\* its first poll (it is not left suspended), and it is woken once.
C15_SubscriptionBeginsAtWatch ==
    [][\A w \in Watchers :
            (/\ rx[w].st = "waiting"
             /\ ~rx[w].polled
             /\ fires_since[w] >= 1
             /\ rx'[w] # rx[w]
             /\ rx'[w] # NoFuture)
                => (rx'[w].st = "done" /\ wakes'[w] = 1)]_vars

\* A future resolved at its first poll, after a fire() that came between its
\* watch() call and that poll; the other watcher is still suspended after a
\* poll that found nothing.
C15_Witness ==
    \E w \in Watchers, v \in Watchers :
        /\ rx[w].st = "done"
        /\ ~rx[w].polled
        /\ rx[w].out = "Ok"
        /\ fires_since[w] = 1
        /\ rx[v].st = "waiting"
        /\ rx[v].polled

-----------------------------------------------------------------------------
(* Lock registry claims *)

\* The tasks that hold the lock of a room in a domain.
Holders(d, r) ==
    {t \in Tasks : task[t].pc = "holding" /\ task[t].dom = d /\ task[t].room = r}

\* C8: for every room and domain at most one lock object is ever created,
\* every handle handed out for the room and domain refers to it, and at most
\* one task holds the room's lock in the domain.
C8_OneLockPerRoomAndDomain ==
    /\ \A d \in Domains, r \in Rooms : created[d][r] <= 1
    /\ \A t \in Tasks, u \in Tasks :
          (/\ task[t].handle # NoLock
           /\ task[u].handle # NoLock
           /\ task[t].dom = task[u].dom
           /\ task[t].room = task[u].room) => task[t].handle = task[u].handle
    /\ \A d \in Domains, r \in Rooms : Cardinality(Holders(d, r)) <= 1

\* All three tasks looked the same room up in the same domain: one lock
\* object was created, one task holds it and the other two wait for it.
C8_Witness ==
    \E d \in Domains, r \in Rooms :
        /\ created[d][r] = 1
        /\ \A t \in Tasks : task[t].handle = registry[d][r]
        /\ Cardinality(Holders(d, r)) = 1
        /\ Cardinality({t \in Tasks : task[t].pc = "waiting"}) = 2

\* C9: at most one caller holds a room's federation lock at a time, and
\* under fair scheduling every caller that asked for it gets it and gives it
\* back.
C9_FederationLockExclusiveAndLive ==
    /\ [](\A r \in Rooms : Cardinality(Holders("federation", r)) <= 1)
    /\ \A t \in Tasks : (task[t].pc # "idle") ~> (task[t].pc = "holding")
    /\ \A t \in Tasks : (task[t].pc = "holding") ~> (task[t].pc = "idle")

\* Three callers of one room's federation lock: one holds it, two wait.
C9_Witness ==
    \E r \in Rooms :
        /\ Cardinality(Holders("federation", r)) = 1
        /\ Cardinality({t \in Tasks : task[t].pc = "waiting" /\ task[t].room = r}) = 2

\* C16: a task that waits for a lock is kept waiting only by a holder of
\* the lock of the same room in the same domain (with no such holder the
\* lock is a released std mutex, which the task is free to take); a lock
\* call on a room and domain that nobody holds succeeds at once, whatever
\* locks of other rooms or of other domains are held; and a task that holds
\* or waits for a room's lock does not hold the write guard of any domain's
\* map.
C16_DomainsAndRoomsIndependent ==
    /\ [](\A t \in Tasks :
            (task[t].pc = "waiting")
                => \/ \E u \in Tasks \ {t} : u \in Holders(task[t].dom, task[t].room)
                   \/ /\ ~IsTokioMutex(task[t].dom)
                      /\ mutex[task[t].handle].owner = Free)
    /\ [][\A t \in Tasks :
            (/\ task[t].pc = "handle"
             /\ task'[t].pc # "handle"
             /\ Holders(task[t].dom, task[t].room) = {})
                => task'[t].pc = "holding"]_vars
    /\ [](\A t \in Tasks, d \in Domains :
            (reg_guard[d] = t) => task[t].pc \in {"guarded", "looked_up"})

\* One room's lock is held in two domains at once, and a second room's lock
\* is held in one of these domains, by three tasks.
C16_Witness ==
    \E r \in Rooms, q \in Rooms, d \in Domains, e \in Domains :
        /\ r # q
        /\ d # e
        /\ Holders(d, r) # {}
        /\ Holders(e, r) # {}
        /\ Holders(e, q) # {}

-----------------------------------------------------------------------------
(* Rate limiter claims *)

\* C10: after n record_failure(k) calls with no clear(k) between them the
\* entry of k is (time of the last call, n); after clear(k), and before any
\* failure, k is not in the map; an operation on k changes no other entry.
C10_FailureCountAndClear ==
    /\ [](\A m \in Limiters, k \in RateKeys :
            IF failures[m][k] = 0
            THEN ratelimiter[m][k] = NoEntry
            ELSE ratelimiter[m][k] = <<last_call[m][k], failures[m][k]>>)
    /\ [][\A m \in Limiters, k \in RateKeys :
            (<<m, k>> # rl_target') => (ratelimiter'[m][k] = ratelimiter[m][k])]_vars

\* Three failures of one key at three different times are recorded, while
\* another key of the same map was cleared after a failure of its own.
C10_Witness ==
    \E m \in Limiters, k \in RateKeys, j \in RateKeys :
        /\ ratelimiter[m][k] = <<2, 3>>
        /\ failures[m][k] = 3
        /\ j # k
        /\ ratelimiter[m][j] = NoEntry
        /\ rl_target = <<m, j>>
        /\ now = 2

-----------------------------------------------------------------------------
(* Concurrency gate claims *)

\* The callers that hold a permit of a server, and those that wait for one.
PermitHolders(s) ==
    {a \in Attempts : attempt[a].pc = "holding" /\ attempt[a].server = s}
PermitWaiters(s) ==
    {a \in Attempts : attempt[a].pc = "waiting" /\ attempt[a].server = s}

\* C11: for every server at most MaxPermits callers hold a permit; a caller
\* waits only while the server's maximum is reached and gets its permit in
\* the step in which a holder of that server releases; permits held plus
\* permits available are always MaxPermits (a release returns exactly one);
\* and a step on one server changes nothing of another server.
C11_ServerPermitsBounded ==
    /\ [](\A s \in Servers :
            /\ Cardinality(PermitHolders(s)) <= MaxPermits
            /\ Cardinality(PermitHolders(s)) + SemaphoreOf(s).permits = MaxPermits
            /\ (PermitWaiters(s) # {}) => Cardinality(PermitHolders(s)) = MaxPermits)
    /\ [][\A a \in Attempts :
            (attempt[a].pc = "waiting" /\ attempt'[a].pc = "holding")
                => \E b \in PermitHolders(attempt[a].server) :
                       /\ attempt'[b] = IdleAttempt
                       /\ attempt'[a].server = attempt[a].server]_vars
    /\ [][\A s \in Servers :
            (servername_ratelimiter'[s] # servername_ratelimiter[s])
                => \A u \in Servers \ {s} :
                       /\ servername_ratelimiter'[u] = servername_ratelimiter[u]
                       /\ PermitHolders(u)' = PermitHolders(u)
                       /\ PermitWaiters(u)' = PermitWaiters(u)]_vars

\* One server is at its maximum with a caller waiting for it, after a permit
\* of the other server was taken and given back.
C11_Witness ==
    \E s \in Servers, u \in Servers :
        /\ s # u
        /\ Cardinality(PermitHolders(s)) = MaxPermits
        /\ Cardinality(PermitWaiters(s)) = 1
        /\ servername_ratelimiter[u] = NewSemaphore

-----------------------------------------------------------------------------
(* Global counter claims *)

\* The record holds a u64: eight bytes.
DecodesAsU64(stored) == stored # NoRecord /\ Len(stored[1]) = 8

-----------------------------------------------------------------------------
(* TLS name override claims *)

\* C18: a name lookup for a hostname whose override entry, at the time of the
\* lookup, holds a non-empty IP list returns the first IP of the list with
\* the entry's port; for a hostname with no entry or with an empty IP list
\* it returns no override; the lookup does not change the map.
C18_ResolveHookConsultsOverrides ==
    [][\A h \in Hostnames :
            Resolve(h) =>
                /\ tls_name_override' = tls_name_override
                /\ resolved'.domain = h
                /\ IF tls_name_override[h] # NoOverride
                      /\ Len(tls_name_override[h][1]) >= 1
                   THEN /\ resolved'.result.kind = "Some"
                        /\ resolved'.result.ip = Head(tls_name_override[h][1])
                        /\ resolved'.result.port = tls_name_override[h][2]
                   ELSE resolved'.result = None]_vars

\* An override with two addresses, added after the client was built, was
\* resolved to its first address and its port, while the other hostname
\* holds an entry with an empty address list.
C18_Witness ==
    \E h \in Hostnames, g \in Hostnames :
        /\ g # h
        /\ tls_name_override[h] = <<(<<"10.0.0.2", "10.0.0.1">>), 8448>>
        /\ resolved = [domain |-> h, result |-> SomeAddr("10.0.0.2", 8448)]
        /\ tls_name_override[g] # NoOverride
        /\ tls_name_override[g][1] = <<>>

=============================================================================
